---- MODULE Spec2Model ----
(***************************************************************************)
(* A model of the argparse library (src/arg_parser.hpp): the Argument      *)
(* builder, the ArgumentParser registry and its lookup, the parse_args     *)
(* pipeline (help check, scan of argv, resolution provided > environment   *)
(* > default, validate, convert_value) and ParsedArgs::get.                *)
(*                                                                         *)
(* A std::string is a sequence of one-character strings, so that           *)
(* starts_with, substr, std::stoi and std::stof are computed character by  *)
(* character.  A std::optional is a sequence of length 0 or 1.  A          *)
(* std::variant<int,float,std::string,bool> is a record [tag, val].        *)
(***************************************************************************)
EXTENDS Integers, Sequences, FiniteSets, TLC

VARIABLES
    args,        \* ArgumentParser::args_ (sequence of Argument records)
    auto_help,   \* ArgumentParser::auto_help_
    arg_index,   \* ArgumentParser::arg_index_ (identifier -> 0-based index)
    environ,     \* the process environment read by std::getenv
    argv,        \* argv[1..argc-1]; argv[0] is the program and is not kept
    pc,          \* "config", "scan", "resolve" or "done"
    i,           \* the scan loop's index into argv (1-based like argv[i])
    provided,    \* parse_args' local provided_args
    values,      \* ParsedArgs::values_ of the result under construction
    k,           \* the resolve loop's position in args_ (1-based)
    outcome,     \* "none", "ok" (table returned), "help" (exit 0), "error"
    err,         \* <<message kind, detail>> of the ArgumentError thrown
    got,         \* result of the last ParsedArgs::get call
    calls        \* number of builder calls made (bounded by MaxCalls)

vars == <<args, auto_help, arg_index, environ, argv, pc, i, provided,
          values, k, outcome, err, got, calls>>

----------------------------------------------------------------------------
(* Bounds *)

MaxCalls == 3     \* builder calls in the configuration specification
MaxArgc == 3      \* tokens after argv[0] in the scan specification

----------------------------------------------------------------------------
(* Strings *)

Dash == <<"-">>
DashDash == <<"-", "-">>
EmptyStr == <<>>

starts_with(s, p) == Len(s) >= Len(p) /\ SubSeq(s, 1, Len(p)) = p

substr(s, n) == SubSeq(s, n + 1, Len(s))

\* Argument::normalize_name
normalize_name(name) ==
    IF starts_with(name, DashDash) THEN substr(name, 2)
    ELSE IF starts_with(name, Dash) THEN substr(name, 1)
    ELSE name

Range(s) == {s[n] : n \in 1..Len(s)}

\* std::optional
nullopt == <<>>
Some(x) == <<x>>
has_value(o) == Len(o) = 1
value_of(o) == o[1]

\* std::variant<int, float, std::string, bool>
IntV(n) == [tag |-> "Int", val |-> n]
\* a float is m * 10^(-e), kept normalised by MkFloat
FloatV(m, e) == [tag |-> "Float", val |-> <<m, e>>]
StringV(s) == [tag |-> "String", val |-> s]
BoolV(b) == [tag |-> "Bool", val |-> b]

----------------------------------------------------------------------------
(* Argument and its builder *)

\* Argument::Argument(std::string name) with the member initialisers
Argument(name) ==
    [name_ |-> name, aliases_ |-> <<>>, required_ |-> FALSE,
     default_value_ |-> IntV(0), is_flag_ |-> FALSE,
     min_value_ |-> nullopt, max_value_ |-> nullopt, env_var_ |-> nullopt,
     choices_ |-> <<>>, type_ |-> "AUTO", custom_validator_ |-> nullopt]

\* the zero value set_type is called with by type_int .. type_bool
ZeroOf(t) ==
    CASE t = "INT" -> IntV(0)
      [] t = "FLOAT" -> FloatV(0, 0)
      [] t = "STRING" -> StringV(EmptyStr)
      [] t = "BOOL" -> BoolV(FALSE)

\* the variant alternative T of set_type<T> for each ArgType
TagOf(t) ==
    CASE t = "INT" -> "Int"
      [] t = "FLOAT" -> "Float"
      [] t = "STRING" -> "String"
      [] t = "BOOL" -> "Bool"

\* Argument::set_type<T>(arg_type, default_val)
set_type(a, arg_type) ==
    IF a.default_value_.tag = TagOf(arg_type)
    THEN [a EXCEPT !.type_ = arg_type]
    ELSE [a EXCEPT !.type_ = arg_type, !.default_value_ = ZeroOf(arg_type)]

\* Argument::flag(bool set)
flag_of(a, set) ==
    IF set THEN [a EXCEPT !.is_flag_ = TRUE, !.default_value_ = BoolV(FALSE)]
    ELSE [a EXCEPT !.is_flag_ = FALSE]

\* inputs of the builder calls
NameInputs == {<<"a">>, <<"b">>, <<"-", "-", "a">>, EmptyStr}
AliasInputs == {<<"d">>, <<"-", "d">>, <<"-", "-", "b">>, <<"a">>, <<"b">>,
                EmptyStr, Dash}
DefaultInputs == {IntV(0), IntV(5), FloatV(0, 0), FloatV(15, 1),
                  StringV(EmptyStr), StringV(<<"R">>), BoolV(FALSE),
                  BoolV(TRUE)}
BoundInputs == {1, 10}
EnvNames == {"V"}
ChoiceInputs == {<<>>, <<<<"R">>, <<"G">>>>, <<<<"1">>, <<"R">>>>}
Validators == {"all_upper"}

Back == Len(args)

Configuring == pc = "config" /\ calls < MaxCalls

ConfigFrame == UNCHANGED <<arg_index, environ, argv, i, provided, values,
                           k, got>>

\* the builder call returns *this: the last Argument becomes a2
Configure(a2) ==
    /\ Configuring
    /\ Back >= 1
    /\ args' = [args EXCEPT ![Back] = a2]
    /\ calls' = calls + 1
    /\ UNCHANGED <<auto_help, pc, outcome, err>>
    /\ ConfigFrame

\* ArgumentParser::add_argument
add_argument ==
    \E name \in NameInputs :
        /\ Configuring
        /\ args' = Append(args, Argument(name))
        /\ calls' = calls + 1
        /\ UNCHANGED <<auto_help, pc, outcome, err>>
        /\ ConfigFrame

\* ArgumentParser::auto_help
auto_help_set ==
    \E enable \in BOOLEAN :
        /\ Configuring
        /\ auto_help' = enable
        /\ calls' = calls + 1
        /\ UNCHANGED <<args, pc, outcome, err>>
        /\ ConfigFrame

\* Argument::required
required == \E req \in BOOLEAN :
    Configure([args[Back] EXCEPT !.required_ = req])

\* Argument::add_alias, which throws on an empty alias or the own name
add_alias ==
    \E input \in AliasInputs :
        LET alias == normalize_name(input) IN
        /\ Configuring
        /\ Back >= 1
        /\ calls' = calls + 1
        /\ IF alias = EmptyStr \/ alias = args[Back].name_
           THEN /\ pc' = "done"
                /\ outcome' = "error"
                /\ err' = <<"Invalid alias", EmptyStr>>
                /\ UNCHANGED args
           ELSE /\ args' = [args EXCEPT ![Back].aliases_ = Append(@, alias)]
                /\ UNCHANGED <<pc, outcome, err>>
        /\ UNCHANGED auto_help
        /\ ConfigFrame

\* Argument::default_value<T>
default_value == \E val \in DefaultInputs :
    Configure([args[Back] EXCEPT !.default_value_ = val])

\* Argument::flag
flag == \E set \in BOOLEAN : Configure(flag_of(args[Back], set))

\* Argument::min_value
min_value == \E val \in BoundInputs :
    Configure([args[Back] EXCEPT !.min_value_ = Some(val)])

\* Argument::max_value
max_value == \E val \in BoundInputs :
    Configure([args[Back] EXCEPT !.max_value_ = Some(val)])

\* Argument::env
env == \E var_name \in EnvNames :
    Configure([args[Back] EXCEPT !.env_var_ = Some(var_name)])

\* Argument::choices
choices == \E options \in ChoiceInputs :
    Configure([args[Back] EXCEPT !.choices_ = options])

\* Argument::type_int .. type_bool
type_int == Configure(set_type(args[Back], "INT"))
type_float == Configure(set_type(args[Back], "FLOAT"))
type_string == Configure(set_type(args[Back], "STRING"))
type_bool == Configure(set_type(args[Back], "BOOL"))

\* Argument::custom_validation
custom_validation == \E fn \in Validators :
    Configure([args[Back] EXCEPT !.custom_validator_ = Some(fn)])

----------------------------------------------------------------------------
(* std::stoi and std::stof *)

INT_MAX == 2147483647
INT_MIN == (0 - INT_MAX) - 1

Digits == {"0", "1", "2", "3", "4", "5", "6", "7", "8", "9"}
Whitespace == {" "}
Upper == {"R", "G", "B", "E", "D"}

DigitVal(c) ==
    CASE c = "0" -> 0 [] c = "1" -> 1 [] c = "2" -> 2 [] c = "3" -> 3
      [] c = "4" -> 4 [] c = "5" -> 5 [] c = "6" -> 6 [] c = "7" -> 7
      [] c = "8" -> 8 [] c = "9" -> 9

\* first position >= p of s whose character is not in set (Len(s)+1 if none)
RECURSIVE SpanEnd(_, _, _)
SpanEnd(s, p, set) ==
    IF p <= Len(s) /\ s[p] \in set THEN SpanEnd(s, p + 1, set) ELSE p

\* value of the digits s[from .. to-1], most significant first
RECURSIVE NumVal(_, _, _)
NumVal(s, from, to) ==
    IF to <= from THEN 0
    ELSE 10 * NumVal(s, from, to - 1) + DigitVal(s[to - 1])

\* std::stoi(s, &pos): leading whitespace, an optional sign, then the longest
\* run of digits; whatever follows the digits is left unread.  Throws
\* (ok = FALSE) when there is no digit or the value does not fit an int
\* (the strings of this model hold fewer than 10 digits).
stoi(s) ==
    LET p0 == SpanEnd(s, 1, Whitespace)
        signed == p0 <= Len(s) /\ s[p0] \in {"-", "+"}
        p1 == IF signed THEN p0 + 1 ELSE p0
        p2 == SpanEnd(s, p1, Digits)
        n == NumVal(s, p1, p2)
        v == IF signed /\ s[p0] = "-" THEN 0 - n ELSE n
    IN  IF p2 = p1 \/ v > INT_MAX \/ v < INT_MIN
        THEN [ok |-> FALSE, val |-> 0, pos |-> 0]
        ELSE [ok |-> TRUE, val |-> v, pos |-> p2 - 1]

RECURSIVE MkFloat(_, _)
MkFloat(m, e) ==
    IF e > 0 /\ m % 10 = 0 THEN MkFloat(m \div 10, e - 1) ELSE FloatV(m, e)

RECURSIVE Pow10(_)
Pow10(n) == IF n = 0 THEN 1 ELSE 10 * Pow10(n - 1)

\* std::stof(s, &pos) on decimal input: leading whitespace, an optional sign,
\* digits with at most one '.', at least one digit.  The strings of this model
\* hold no exponent, hexadecimal, "inf" or "nan" form and at most 8 digits.
stof(s) ==
    LET p0 == SpanEnd(s, 1, Whitespace)
        signed == p0 <= Len(s) /\ s[p0] \in {"-", "+"}
        p1 == IF signed THEN p0 + 1 ELSE p0
        p2 == SpanEnd(s, p1, Digits)
        dot == p2 <= Len(s) /\ s[p2] = "."
        p3 == IF dot THEN SpanEnd(s, p2 + 1, Digits) ELSE p2
        nint == p2 - p1
        nfrac == IF dot THEN p3 - (p2 + 1) ELSE 0
        m == IF dot THEN NumVal(s, p1, p2) * Pow10(nfrac)
                         + NumVal(s, p2 + 1, p3)
             ELSE NumVal(s, p1, p2)
        v == IF signed /\ s[p0] = "-" THEN 0 - m ELSE m
    IN  IF nint + nfrac = 0
        THEN [ok |-> FALSE, val |-> FloatV(0, 0), pos |-> 0]
        ELSE [ok |-> TRUE, val |-> MkFloat(v, nfrac), pos |-> p3 - 1]

----------------------------------------------------------------------------
(* Argument::validate and ArgumentParser::convert_value *)

NoError == <<>>

StrTrue == <<"t", "r", "u", "e">>
StrFalse == <<"f", "a", "l", "s", "e">>
StrOne == <<"1">>
StrZero == <<"0">>

\* the std::function stored by custom_validation; "all_upper" is the lambda
\* of src/main.cpp, std::all_of(val.begin(), val.end(), ::isupper)
custom_validator(fn, s) ==
    CASE fn = "all_upper" -> \A n \in 1..Len(s) : s[n] \in Upper

\* validate with the choice check made for STRING options only
validate_choices_string_only(a, value_str) ==
    LET r == stoi(value_str)
        typeErr ==
            IF a.type_ = "INT"
            THEN IF value_str = EmptyStr
                 THEN <<"Missing integer value", EmptyStr>>
                 ELSE IF \/ ~r.ok
                         \/ (has_value(a.min_value_)
                               /\ r.val < value_of(a.min_value_))
                         \/ (has_value(a.max_value_)
                               /\ r.val > value_of(a.max_value_))
                      THEN <<"Invalid integer value", value_str>>
                      ELSE NoError
            ELSE IF a.type_ = "STRING" /\ a.choices_ # <<>>
                    /\ value_str \notin Range(a.choices_)
                 THEN <<"Invalid choice", value_str>>
                 ELSE NoError
    IN  IF typeErr # NoError THEN typeErr
        ELSE IF has_value(a.custom_validator_)
                /\ ~custom_validator(value_of(a.custom_validator_), value_str)
             THEN <<"Validation failed", value_str>>
             ELSE NoError

\* Argument::validate: NoError, or the ArgumentError it throws
validate(a, value_str) ==
    LET r == stoi(value_str)
        typeErr ==
            IF a.type_ = "INT"
            THEN IF value_str = EmptyStr
                 THEN <<"Missing integer value", EmptyStr>>
                 ELSE IF \/ ~r.ok
                         \/ (has_value(a.min_value_)
                               /\ r.val < value_of(a.min_value_))
                         \/ (has_value(a.max_value_)
                               /\ r.val > value_of(a.max_value_))
                      THEN <<"Invalid integer value", value_str>>
                      ELSE NoError
            ELSE IF a.choices_ # <<>> /\ value_str \notin Range(a.choices_)
                 THEN <<"Invalid choice", value_str>>
                 ELSE NoError
    IN  IF typeErr # NoError THEN typeErr
        ELSE IF has_value(a.custom_validator_)
                /\ ~custom_validator(value_of(a.custom_validator_), value_str)
             THEN <<"Validation failed", value_str>>
             ELSE NoError

\* the AUTO case of convert_value
convert_auto(value_str) ==
    LET ri == stoi(value_str)
        rf == stof(value_str)
    IN  IF value_str \in {StrTrue, StrFalse, StrOne, StrZero}
        THEN BoolV(value_str = StrTrue \/ value_str = StrOne)
        ELSE IF ri.ok /\ ri.pos = Len(value_str) THEN IntV(ri.val)
        ELSE IF rf.ok /\ rf.pos = Len(value_str) THEN rf.val
        ELSE StringV(value_str)

\* ArgumentParser::convert_value: ok = FALSE is "Invalid value format"
convert_value(value_str, type) ==
    CASE type = "INT" ->
            [ok |-> stoi(value_str).ok, val |-> IntV(stoi(value_str).val)]
      [] type = "FLOAT" ->
            [ok |-> stof(value_str).ok, val |-> stof(value_str).val]
      [] type = "BOOL" ->
            [ok |-> TRUE,
             val |-> BoolV(value_str = StrTrue \/ value_str = StrOne)]
      [] type = "STRING" -> [ok |-> TRUE, val |-> StringV(value_str)]
      [] type = "AUTO" -> [ok |-> TRUE, val |-> convert_auto(value_str)]

----------------------------------------------------------------------------
(* ArgumentParser::build_lookup *)

EmptyMap == [x \in {} |-> 0]

Put(m, key, v) ==
    [x \in (DOMAIN m) \cup {key} |-> IF x = key THEN v ELSE m[x]]

\* the inner loop over arg.aliases(), from alias j on, for the argument at
\* 0-based index n
RECURSIVE add_aliases(_, _, _, _)
add_aliases(idx, aliases, j, n) ==
    IF j > Len(aliases) THEN [ok |-> TRUE, idx |-> idx, dup |-> EmptyStr]
    ELSE IF aliases[j] \in DOMAIN idx
         THEN [ok |-> FALSE, idx |-> idx, dup |-> aliases[j]]
         ELSE add_aliases(Put(idx, aliases[j], n), aliases, j + 1, n)

\* the outer loop from the argument at 1-based position n on
RECURSIVE build_from(_, _, _)
build_from(as, idx, n) ==
    IF n > Len(as) THEN [ok |-> TRUE, idx |-> idx, dup |-> EmptyStr]
    ELSE LET r == add_aliases(Put(idx, as[n].name_, n - 1),
                              as[n].aliases_, 1, n - 1)
         IN  IF r.ok THEN build_from(as, r.idx, n + 1) ELSE r

build_lookup(as) == build_from(as, EmptyMap, 1)

----------------------------------------------------------------------------
(* ArgumentParser::parse_args *)

StrHelp == <<"-", "-", "h", "e", "l", "p">>
StrH == <<"-", "h">>

\* the Argument a known identifier resolves to: args_[arg_index_.at(name)]
ArgAt(name) == args[arg_index[name] + 1]

\* get_env_value without the null check on std::getenv's result
get_env_value_null_as_empty(a) ==
    IF ~has_value(a.env_var_) THEN nullopt
    ELSE IF value_of(a.env_var_) \in DOMAIN environ
         THEN Some(environ[value_of(a.env_var_)])
         ELSE Some(EmptyStr)

\* Argument::get_env_value
get_env_value(a) ==
    IF ~has_value(a.env_var_) THEN nullopt
    ELSE IF value_of(a.env_var_) \in DOMAIN environ
         THEN Some(environ[value_of(a.env_var_)])
         ELSE nullopt

Throw(e) ==
    /\ pc' = "done"
    /\ outcome' = "error"
    /\ err' = e

\* parse_begin with --help / -h honoured only while auto-help is enabled
parse_begin_help_needs_auto_help ==
    LET r == build_lookup(args) IN
    /\ pc = "config"
    /\ arg_index' = r.idx
    /\ IF ~r.ok
       THEN Throw(<<"Duplicate alias", r.dup>>)
       ELSE IF auto_help
               /\ (Len(argv) = 0
                     \/ \E n \in 1..Len(argv) : argv[n] \in {StrHelp, StrH})
            THEN /\ pc' = "done"
                 /\ outcome' = "help"
                 /\ UNCHANGED err
            ELSE /\ pc' = IF Len(argv) >= 1 THEN "scan"
                          ELSE IF Len(args) >= 1 THEN "resolve" ELSE "done"
                 /\ outcome' = IF Len(argv) = 0 /\ Len(args) = 0
                               THEN "ok" ELSE "none"
                 /\ UNCHANGED err
    /\ i' = 1
    /\ k' = 1
    /\ provided' = EmptyMap
    /\ values' = EmptyMap
    /\ UNCHANGED <<args, auto_help, environ, argv, got, calls>>

\* parse_args up to the scan loop: build_lookup, then the help checks
parse_begin ==
    LET r == build_lookup(args) IN
    /\ pc = "config"
    /\ arg_index' = r.idx
    /\ IF ~r.ok
       THEN Throw(<<"Duplicate alias", r.dup>>)
       ELSE IF \/ (auto_help /\ Len(argv) = 0)
               \/ (~(auto_help /\ Len(argv) = 0)
                     /\ \E n \in 1..Len(argv) : argv[n] \in {StrHelp, StrH})
            THEN /\ pc' = "done"
                 /\ outcome' = "help"
                 /\ UNCHANGED err
            ELSE /\ pc' = IF Len(argv) >= 1 THEN "scan"
                          ELSE IF Len(args) >= 1 THEN "resolve" ELSE "done"
                 /\ outcome' = IF Len(argv) = 0 /\ Len(args) = 0
                               THEN "ok" ELSE "none"
                 /\ UNCHANGED err
    /\ i' = 1
    /\ k' = 1
    /\ provided' = EmptyMap
    /\ values' = EmptyMap
    /\ UNCHANGED <<args, auto_help, environ, argv, got, calls>>

\* scan_token in which a flag never consumes the token after it
scan_token_flag_takes_no_value(prefix) ==
    LET name == substr(argv[i], Len(prefix))
        known == name \in DOMAIN arg_index
        takes == /\ i + 1 <= Len(argv) /\ ~starts_with(argv[i + 1], Dash)
                 /\ known /\ ~ArgAt(name).is_flag_
        value == IF takes THEN argv[i + 1] ELSE EmptyStr
    IN  IF ~known
        THEN [e |-> <<"Unrecognized argument", prefix \o name>>,
              provided |-> provided, next |-> i]
        ELSE IF ~takes /\ ~ArgAt(name).is_flag_
        THEN [e |-> <<"Missing value", prefix \o name>>,
              provided |-> provided, next |-> i]
        ELSE [e |-> NoError,
              provided |-> IF name # EmptyStr
                           THEN Put(provided, ArgAt(name).name_, value)
                           ELSE provided,
              next |-> IF takes THEN i + 2 ELSE i + 1]

\* what one iteration of the scan loop does with argv[i]:
\* the error thrown, or the new provided_args and the next i
scan_token(prefix) ==
    LET name == substr(argv[i], Len(prefix))
        takes == i + 1 <= Len(argv) /\ ~starts_with(argv[i + 1], Dash)
        value == IF takes THEN argv[i + 1] ELSE EmptyStr
    IN  IF name \notin DOMAIN arg_index
        THEN [e |-> <<"Unrecognized argument", prefix \o name>>,
              provided |-> provided, next |-> i]
        ELSE IF ~takes /\ ~ArgAt(name).is_flag_
        THEN [e |-> <<"Missing value", prefix \o name>>,
              provided |-> provided, next |-> i]
        ELSE [e |-> NoError,
              provided |-> IF name # EmptyStr
                           THEN Put(provided, ArgAt(name).name_, value)
                           ELSE provided,
              next |-> IF takes THEN i + 2 ELSE i + 1]

scan_iteration ==
    IF starts_with(argv[i], DashDash) THEN scan_token(DashDash)
    ELSE IF starts_with(argv[i], Dash) THEN scan_token(Dash)
    ELSE [e |-> NoError, provided |-> provided, next |-> i + 1]

\* one iteration of the first loop of parse_args
scan_step ==
    LET r == scan_iteration IN
    /\ pc = "scan"
    /\ i <= Len(argv)
    /\ IF r.e # NoError
       THEN /\ Throw(r.e)
            /\ UNCHANGED <<i, provided>>
       ELSE /\ i' = r.next
            /\ provided' = r.provided
            /\ pc' = IF r.next <= Len(argv) THEN "scan"
                     ELSE IF Len(args) >= 1 THEN "resolve" ELSE "done"
            /\ outcome' = IF r.next > Len(argv) /\ Len(args) = 0
                          THEN "ok" ELSE "none"
            /\ UNCHANGED err
    /\ UNCHANGED <<args, auto_help, arg_index, environ, argv, values, k,
                   got, calls>>

\* resolve_arg with the environment consulted before the command line
resolve_arg_env_first(a) ==
    LET env_val == get_env_value(a)
        from_cli == a.name_ \in DOMAIN provided
        cand == IF has_value(env_val) THEN env_val
                ELSE IF from_cli THEN Some(provided[a.name_]) ELSE nullopt
    IN  IF has_value(cand)
        THEN IF validate(a, value_of(cand)) # NoError
             THEN [e |-> validate(a, value_of(cand)), val |-> a.default_value_]
             ELSE IF ~convert_value(value_of(cand), a.type_).ok
             THEN [e |-> <<"Invalid value format", value_of(cand)>>,
                   val |-> a.default_value_]
             ELSE [e |-> NoError,
                   val |-> convert_value(value_of(cand), a.type_).val]
        ELSE IF a.required_
             THEN [e |-> <<"Missing required argument", a.name_>>,
                   val |-> a.default_value_]
             ELSE [e |-> NoError, val |-> a.default_value_]

\* what one iteration of the resolve loop does with args_[k]:
\* the error thrown, or the value stored under the argument's name
resolve_arg(a) ==
    LET env_val == get_env_value(a)
        from_cli == a.name_ \in DOMAIN provided
        cand == IF from_cli THEN Some(provided[a.name_]) ELSE env_val
    IN  IF has_value(cand)
        THEN IF validate(a, value_of(cand)) # NoError
             THEN [e |-> validate(a, value_of(cand)), val |-> a.default_value_]
             ELSE IF ~convert_value(value_of(cand), a.type_).ok
             THEN [e |-> <<"Invalid value format", value_of(cand)>>,
                   val |-> a.default_value_]
             ELSE [e |-> NoError,
                   val |-> convert_value(value_of(cand), a.type_).val]
        ELSE IF a.required_
             THEN [e |-> <<"Missing required argument", a.name_>>,
                   val |-> a.default_value_]
             ELSE [e |-> NoError, val |-> a.default_value_]

\* one iteration of the second loop of parse_args; the ParsedArgs under
\* construction is destroyed when an ArgumentError leaves parse_args
resolve_step ==
    LET r == resolve_arg(args[k]) IN
    /\ pc = "resolve"
    /\ k <= Len(args)
    /\ IF r.e # NoError
       THEN /\ Throw(r.e)
            /\ values' = EmptyMap
            /\ UNCHANGED k
       ELSE /\ values' = Put(values, args[k].name_, r.val)
            /\ k' = k + 1
            /\ pc' = IF k + 1 <= Len(args) THEN "resolve" ELSE "done"
            /\ outcome' = IF k + 1 <= Len(args) THEN "none" ELSE "ok"
            /\ UNCHANGED err
    /\ UNCHANGED <<args, auto_help, arg_index, environ, argv, i, provided,
                   got, calls>>

----------------------------------------------------------------------------
(* ParsedArgs::get<T> *)

Tags == {"Int", "Float", "String", "Bool"}

QueryInputs == {<<"a">>, <<"-", "-", "a">>, <<"b">>, <<"d">>, <<"-", "d">>,
                <<"z">>}

\* ParsedArgs::get<T>(name): the value, or the exception of at / std::get
get_result(name, T) ==
    LET key == IF starts_with(name, DashDash) THEN substr(name, 2)
               ELSE IF starts_with(name, Dash) THEN substr(name, 1)
               ELSE name
    IN  IF key \notin DOMAIN values THEN <<"raise", "out_of_range">>
        ELSE IF values[key].tag # T THEN <<"raise", "bad_variant_access">>
        ELSE <<"value", values[key]>>

\* get is const and its result depends on the table alone, so a run makes
\* one query
get ==
    \E name \in QueryInputs, T \in Tags :
        /\ pc = "done"
        /\ outcome = "ok"
        /\ got = <<>>
        /\ got' = <<name, T>> \o get_result(name, T)
        /\ UNCHANGED <<args, auto_help, arg_index, environ, argv, pc, i,
                       provided, values, k, outcome, err, calls>>

----------------------------------------------------------------------------
(* Specifications *)

NextConfig ==
    \/ add_argument
    \/ auto_help_set
    \/ required
    \/ add_alias
    \/ default_value
    \/ flag
    \/ min_value
    \/ max_value
    \/ env
    \/ choices
    \/ type_int
    \/ type_float
    \/ type_string
    \/ type_bool
    \/ custom_validation

NextParse ==
    \/ parse_begin
    \/ scan_step
    \/ resolve_step
    \/ get

InitParseLocals ==
    /\ arg_index = EmptyMap
    /\ pc = "config"
    /\ i = 1
    /\ k = 1
    /\ provided = EmptyMap
    /\ values = EmptyMap
    /\ outcome = "none"
    /\ err = NoError
    /\ got = <<>>
    /\ calls = 0

Strings(S, n) == UNION {[1..m -> S] : m \in 0..n}

\* The program from the construction of the parser on: builder calls, then
\* one parse_args over the process's argv and environment, then queries.
ConfigArgvs == {<<>>, <<<<"-", "-", "a">>>>, <<<<"-", "d">>, <<"5">>>>}
ConfigEnvs == {EmptyMap, [x \in {"V"} |-> <<"5">>]}

Init ==
    /\ args = <<>>
    /\ auto_help = TRUE
    /\ argv \in ConfigArgvs
    /\ environ \in ConfigEnvs
    /\ InitParseLocals

Next == NextConfig \/ NextParse

Spec == Init /\ [][Next]_vars

\* parse_args over registries of one or two options that differ in name,
\* alias, flag mode and type, and every argv of at most MaxArgc tokens.
ScanArg(name, aliases, is_flag, type) ==
    LET a1 == IF type = "AUTO" THEN Argument(name)
              ELSE set_type(Argument(name), type)
        a2 == IF is_flag THEN flag_of(a1, TRUE) ELSE a1
    IN  [a2 EXCEPT !.aliases_ = aliases]

ScanArgs ==
    {ScanArg(n, al, fl, ty) :
        n \in {<<"a">>, <<"b">>}, al \in {<<>>, <<<<"d">>>>},
        fl \in BOOLEAN, ty \in {"AUTO", "BOOL"}}
    \cup {ScanArg(EmptyStr, <<>>, FALSE, "AUTO")}

ScanRegistries ==
    {<<a>> : a \in ScanArgs}
    \cup {<<a, b>> : a \in {x \in ScanArgs : x.name_ = <<"a">>},
                     b \in {x \in ScanArgs : x.type_ = "AUTO"}}

ScanTokens == {<<"-", "-", "a">>, <<"-", "d">>, <<"-", "b">>, <<"-", "z">>,
               <<"v">>, StrHelp, StrH, Dash}

InitScan ==
    /\ args \in ScanRegistries
    /\ auto_help \in BOOLEAN
    /\ argv \in Strings(ScanTokens, MaxArgc)
    /\ environ = EmptyMap
    /\ InitParseLocals

SpecScan == InitScan /\ [][NextParse]_vars

\* parse_args over options with types, bounds, choices, validators, defaults,
\* required marks and environment fallbacks, given one raw value on the
\* command line or in the environment.
OptArg(a, required_, env_var_) ==
    [a EXCEPT !.required_ = required_, !.env_var_ = env_var_]

IntArgs ==
    {[set_type(Argument(<<"a">>), "INT") EXCEPT
          !.default_value_ = d, !.min_value_ = mn, !.max_value_ = mx] :
        d \in {IntV(0), IntV(5)}, mn \in {nullopt, Some(1)},
        mx \in {nullopt, Some(10)}}

ChoiceArgs ==
    {[(IF ty = "AUTO" THEN Argument(<<"a">>)
       ELSE set_type(Argument(<<"a">>), ty)) EXCEPT
          !.default_value_ = StringV(<<"R">>), !.choices_ = ch,
          !.custom_validator_ = cv] :
        ty \in {"AUTO", "STRING"}, ch \in ChoiceInputs,
        cv \in {nullopt, Some("all_upper")}}

OtherArgs ==
    {set_type(Argument(<<"a">>), "FLOAT"),
     set_type(Argument(<<"a">>), "BOOL"),
     flag_of(set_type(Argument(<<"a">>), "BOOL"), TRUE),
     flag_of(Argument(<<"a">>), TRUE),
     set_type(flag_of(Argument(<<"a">>), TRUE), "INT")}

ResolveArgs ==
    {OptArg(a, r, e) : a \in IntArgs \cup ChoiceArgs \cup OtherArgs,
                       r \in BOOLEAN, e \in {nullopt, Some("V")}}

SecondArgs ==
    {[set_type(Argument(<<"b">>), "INT") EXCEPT !.default_value_ = IntV(5)],
     [set_type(Argument(<<"b">>), "STRING") EXCEPT !.env_var_ = Some("V")],
     set_type(Argument(<<"a">>), "STRING")}

ResolveRegistries ==
    {<<a>> : a \in ResolveArgs}
    \cup {<<a, b>> : a \in ResolveArgs, b \in SecondArgs}

RawValues == {<<"5">>, <<"0">>, <<"1", "1">>, <<"5", "x">>, <<"a", "b">>,
              <<"R">>, <<"Y">>, <<"1">>, <<"1", ".", "5">>}
EnvValues == RawValues \cup {<<"-", "1">>, EmptyStr}

ResolveArgvs ==
    {<<>>, <<<<"-", "-", "a">>>>}
    \cup {<<<<"-", "-", "a">>, v>> : v \in RawValues}

ResolveEnvs == {EmptyMap} \cup {[x \in {"V"} |-> v] : v \in EnvValues}

InitResolve ==
    /\ args \in ResolveRegistries
    /\ auto_help \in BOOLEAN
    /\ argv \in ResolveArgvs
    /\ environ \in ResolveEnvs
    /\ InitParseLocals

SpecResolve == InitResolve /\ [][NextParse]_vars

----------------------------------------------------------------------------
(* Vocabulary of the properties *)

\* the canonical name and the aliases of an option
Idents(a) == {a.name_} \cup Range(a.aliases_)

\* no two registered options share a canonical name or an alias
NoSharedIdentifier ==
    \A m \in 1..Len(args), n \in 1..Len(args) :
        m < n => Idents(args[m]) \cap Idents(args[n]) = {}

\* parse_args has run build_lookup and build_lookup did not throw
LookupBuilt ==
    \/ pc \in {"scan", "resolve"}
    \/ pc = "done" /\ outcome \in {"ok", "help"}
    \/ pc = "done" /\ outcome = "error"
         /\ err[1] \notin {"Invalid alias", "Duplicate alias"}

ResolveErrors ==
    {"Missing integer value", "Invalid integer value", "Invalid choice",
     "Validation failed", "Invalid value format", "Missing required argument"}

ValidationErrors ==
    {"Missing integer value", "Invalid integer value", "Invalid choice",
     "Validation failed", "Invalid value format"}

\* the resolve loop has just stored the value of args[k - 1]
JustResolved == pc \in {"resolve", "done"} /\ outcome # "error" /\ k > 1

\* the resolve loop threw while it handled args[k]
ResolveFailed == pc = "done" /\ outcome = "error" /\ err[1] \in ResolveErrors

EnvSet(a) == has_value(a.env_var_) /\ value_of(a.env_var_) \in DOMAIN environ

OnCommandLine(a) == a.name_ \in DOMAIN provided

\* the raw string the option is given: command line first, then environment
HasCandidate(a) == OnCommandLine(a) \/ EnvSet(a)
Candidate(a) ==
    IF OnCommandLine(a) THEN provided[a.name_]
    ELSE environ[value_of(a.env_var_)]

\* a token that starts with a dash and whose stripped name is an identifier
\* of the option a
Names(tok, a) == starts_with(tok, Dash) /\ normalize_name(tok) \in Idents(a)

\* the token at position p is not followed by a value token
NoValueAfter(p) == p = Len(argv) \/ starts_with(argv[p + 1], Dash)

\* s without its leading blanks and without its sign
RECURSIVE Unpadded(_)
Unpadded(s) == IF s # <<>> /\ s[1] \in Whitespace THEN Unpadded(Tail(s)) ELSE s

Unsigned(s) ==
    IF Unpadded(s) # <<>> /\ Unpadded(s)[1] \in {"-", "+"}
    THEN Tail(Unpadded(s)) ELSE Unpadded(s)

\* the whole of s is an optionally signed decimal integer
IsIntegerText(s) ==
    Unsigned(s) # <<>> /\ \A n \in 1..Len(Unsigned(s)) : Unsigned(s)[n] \in Digits

IntegerOfText(s) ==
    LET n == NumVal(Unsigned(s), 1, Len(Unsigned(s)) + 1)
    IN  IF Unpadded(s)[1] = "-" THEN 0 - n ELSE n

\* the whole of s is an optionally signed decimal number
IsDecimalText(s) ==
    LET body == Unsigned(s)
    IN  /\ \E n \in 1..Len(body) : body[n] \in Digits
        /\ \A n \in 1..Len(body) : body[n] \in Digits \cup {"."}
        /\ Cardinality({n \in 1..Len(body) : body[n] = "."}) <= 1

IsBooleanText(s) == s \in {StrTrue, StrFalse, StrOne, StrZero}

----------------------------------------------------------------------------
(* Properties *)

\* C1: after a successful parse, every flag option whose canonical name or
\* alias appears on the command line with no value token after it holds
\* Bool true, and every flag option that does not appear (and has no
\* environment fallback) holds Bool false.
C1_FlagPresenceIsTrue ==
    (pc = "done" /\ outcome = "ok" /\ NoSharedIdentifier) =>
        \A n \in 1..Len(args) :
            args[n].is_flag_ =>
                /\ (\E p \in 1..Len(argv) :
                        Names(argv[p], args[n]) /\ NoValueAfter(p))
                    => values[args[n].name_] = BoolV(TRUE)
                /\ ((\A p \in 1..Len(argv) : ~Names(argv[p], args[n]))
                        /\ ~EnvSet(args[n]))
                    => values[args[n].name_] = BoolV(FALSE)

\* C2: after a successful parse, get<T> by a canonical name or by an alias
\* of an option (with or without leading dashes) returns the option's stored
\* value when T is the stored tag; it raises when the name is no identifier
\* of any option or when T differs from the stored tag.
C2_GetByNameOrAlias ==
    (got # <<>> /\ NoSharedIdentifier) =>
        LET key == normalize_name(got[1]) IN
        /\ \A n \in 1..Len(args) :
              key \in Idents(args[n]) =>
                  IF values[args[n].name_].tag = got[2]
                  THEN got[3] = "value" /\ got[4] = values[args[n].name_]
                  ELSE got[3] = "raise"
        /\ (\A n \in 1..Len(args) : key \notin Idents(args[n]))
              => got[3] = "raise"

\* C3: whenever build_lookup succeeds, no two registered options share a
\* canonical name or alias and every identifier maps to the index of the
\* option that owns it.
C3_LookupRejectsSharedIdentifiers ==
    LookupBuilt =>
        /\ NoSharedIdentifier
        /\ \A n \in 1..Len(args) : \A id \in Idents(args[n]) :
              id \in DOMAIN arg_index /\ arg_index[id] = n - 1

\* C6: an Int option given the raw string v stores Int n exactly when the
\* whole of v is the integer n and n lies in [min, max]; in every other case
\* the parse fails with a validation error.
InIntRange(a, n) ==
    /\ has_value(a.min_value_) => n >= value_of(a.min_value_)
    /\ has_value(a.max_value_) => n <= value_of(a.max_value_)

C6_IntStoredIffIntegerInRange ==
    /\ (JustResolved /\ args[k - 1].type_ = "INT"
            /\ HasCandidate(args[k - 1])) =>
          LET a == args[k - 1] IN
          /\ IsIntegerText(Candidate(a))
          /\ InIntRange(a, IntegerOfText(Candidate(a)))
          /\ values[a.name_] = IntV(IntegerOfText(Candidate(a)))
    /\ (ResolveFailed /\ args[k].type_ = "INT" /\ HasCandidate(args[k])) =>
          LET a == args[k] IN
          /\ err[1] \in ValidationErrors
          /\ ~(IsIntegerText(Candidate(a))
                 /\ InIntRange(a, IntegerOfText(Candidate(a))))

\* C9: after any sequence of builder calls, an option with a fixed type has a
\* default of that type's tag, and a flag option has type Bool or Auto.
C9_DefaultTagMatchesType ==
    \A n \in 1..Len(args) :
        /\ args[n].type_ # "AUTO" =>
              args[n].default_value_.tag = TagOf(args[n].type_)
        /\ args[n].is_flag_ => args[n].type_ \in {"BOOL", "AUTO"}

\* C4: the resolver takes the command-line value if there is one (the
\* environment is then not used), else the value of a set environment
\* variable, validated and converted like a command-line value, else fails
\* with "Missing required argument" if the option is required, else stores
\* the default as it is.
C4_ResolutionPrecedence ==
    /\ JustResolved =>
          LET a == args[k - 1] IN
          IF OnCommandLine(a)
          THEN /\ validate(a, provided[a.name_]) = NoError
               /\ values[a.name_]
                    = convert_value(provided[a.name_], a.type_).val
          ELSE IF EnvSet(a)
          THEN /\ validate(a, environ[value_of(a.env_var_)]) = NoError
               /\ values[a.name_]
                    = convert_value(environ[value_of(a.env_var_)], a.type_).val
          ELSE ~a.required_ /\ values[a.name_] = a.default_value_
    /\ ResolveFailed =>
          LET a == args[k] IN
          IF OnCommandLine(a)
          THEN /\ err[1] \in ValidationErrors
               /\ \/ err = validate(a, provided[a.name_])
                  \/ ~convert_value(provided[a.name_], a.type_).ok
          ELSE IF EnvSet(a)
          THEN /\ err[1] \in ValidationErrors
               /\ \/ err = validate(a, environ[value_of(a.env_var_)])
                  \/ ~convert_value(environ[value_of(a.env_var_)], a.type_).ok
          ELSE a.required_ /\ err = <<"Missing required argument", a.name_>>

\* an option given on the command line while its environment variable holds
\* another string has stored the converted command-line string
C4_Witness ==
    /\ JustResolved
    /\ OnCommandLine(args[k - 1])
    /\ EnvSet(args[k - 1])
    /\ args[k - 1].type_ = "INT"
    /\ provided[args[k - 1].name_] = <<"5">>
    /\ environ["V"] = <<"0">>
    /\ values[args[k - 1].name_] = IntV(5)

NoRequired == \A n \in 1..Len(args) : ~args[n].required_

EmptyRunDone == pc = "done" /\ argv = <<>> /\ ~auto_help

AllDefaults ==
    /\ outcome = "ok"
    /\ \A n \in 1..Len(args) : values[args[n].name_] = args[n].default_value_

\* C5 as stated: with no required option, no shared identifier and auto-help
\* off, parsing an empty argument list succeeds and every entry of the table
\* is the option's default.
C5_EmptyArgvYieldsDefaults ==
    (EmptyRunDone /\ NoRequired /\ NoSharedIdentifier) => AllDefaults

\* C5 amended: the same, provided no option names an environment variable
\* that is set.
C5_EmptyArgvNoEnvYieldsDefaults ==
    (EmptyRunDone /\ NoRequired /\ NoSharedIdentifier
        /\ \A n \in 1..Len(args) : ~EnvSet(args[n])) => AllDefaults

\* two options, one naming an unset environment variable, parsed from an
\* empty argument list into a table of their defaults
C5_Witness ==
    /\ EmptyRunDone /\ NoRequired /\ NoSharedIdentifier
    /\ Len(args) = 2
    /\ has_value(args[1].env_var_)
    /\ environ = EmptyMap
    /\ outcome = "ok"
    /\ values[args[1].name_] = StringV(<<"R">>)
    /\ values[args[2].name_] = IntV(5)

ChoiceCase(a) ==
    /\ a.choices_ # <<>>
    /\ a.type_ \in {"AUTO", "STRING"}
    /\ ~has_value(a.custom_validator_)
    /\ HasCandidate(a)

ChoiceRejected ==
    (ResolveFailed /\ ChoiceCase(args[k])) =>
        /\ Candidate(args[k]) \notin Range(args[k].choices_)
        /\ err[1] \in ValidationErrors

\* C7 as stated: an Auto or String option with choices and no custom
\* validator stores a raw value that is a member of the choices as that same
\* String, and fails on a raw value that is not a member.
C7_ChoiceStoredAsString ==
    /\ (JustResolved /\ ChoiceCase(args[k - 1])) =>
          /\ Candidate(args[k - 1]) \in Range(args[k - 1].choices_)
          /\ values[args[k - 1].name_] = StringV(Candidate(args[k - 1]))
    /\ ChoiceRejected

\* C7 amended: the member is stored as that same String when the type is
\* String, or when the type is Auto and the raw value is neither a boolean
\* literal nor wholly an integer or a decimal number; an Auto option stores
\* the inferred Bool, Int or Float for such a literal.
C7_ChoiceStoredAsStringUnlessInferred ==
    /\ (JustResolved /\ ChoiceCase(args[k - 1])) =>
          LET a == args[k - 1]
              v == Candidate(a)
          IN  /\ v \in Range(a.choices_)
              /\ IF a.type_ = "STRING" THEN values[a.name_] = StringV(v)
                 ELSE IF IsBooleanText(v)
                 THEN values[a.name_] = BoolV(v \in {StrTrue, StrOne})
                 ELSE IF IsIntegerText(v)
                 THEN values[a.name_] = IntV(IntegerOfText(v))
                 ELSE IF IsDecimalText(v)
                 THEN values[a.name_].tag = "Float"
                 ELSE values[a.name_] = StringV(v)
    /\ ChoiceRejected

\* an Auto option with choices has stored the member "R" as a String
C7_Witness ==
    /\ JustResolved
    /\ ChoiceCase(args[k - 1])
    /\ args[k - 1].type_ = "AUTO"
    /\ Candidate(args[k - 1]) = <<"R">>
    /\ values[args[k - 1].name_] = StringV(<<"R">>)

HelpAsked == \E n \in 1..Len(argv) : argv[n] \in {StrHelp, StrH}

HelpOutcome ==
    /\ HelpAsked => outcome = "help"
    /\ argv = <<>> => (outcome = "help" <=> auto_help)

KnownToken(tok) ==
    starts_with(tok, Dash)
        /\ \E n \in 1..Len(args) : normalize_name(tok) \in Idents(args[n])

Owner(tok) == ArgAt(normalize_name(tok))

ValueFollows == i + 1 <= Len(argv) /\ ~starts_with(argv[i + 1], Dash)

Recorded(name, value) ==
    name \in DOMAIN provided' /\ provided'[name] = value

\* what C10 says of a token that names a known option
KnownTokenStep(record_empty_name) ==
    LET tok == argv[i]
        records == record_empty_name \/ normalize_name(tok) # EmptyStr
    IN  IF ValueFollows
        THEN /\ outcome' # "error"
             /\ i' = i + 2
             /\ IF records THEN Recorded(Owner(tok).name_, argv[i + 1])
                ELSE provided' = provided
        ELSE IF ~Owner(tok).is_flag_
        THEN outcome' = "error" /\ err' = <<"Missing value", tok>>
        ELSE /\ outcome' # "error"
             /\ i' = i + 1
             /\ IF records THEN Recorded(Owner(tok).name_, EmptyStr)
                ELSE provided' = provided

Unrecognized == outcome' = "error" /\ err'[1] = "Unrecognized argument"

\* C10 as stated: a token naming a known option takes the next token as its
\* value when that token exists and has no leading dash (flags too), the scan
\* resuming two further; otherwise a non-flag fails with "Missing value" and
\* a flag records the empty string; a token naming no known option fails
\* with "Unrecognized argument".
C10_ScanRule ==
    [][pc = "scan" =>
          IF KnownToken(argv[i]) THEN KnownTokenStep(TRUE)
          ELSE Unrecognized]_vars

\* C10 amended: only a token with a leading dash that names no known option
\* fails with "Unrecognized argument"; a token without a leading dash met
\* by the scan is skipped; and a token that is only dashes (naming an option
\* whose canonical name is empty) is scanned the same way but records
\* nothing.
C10_ScanRuleDashTokens ==
    [][pc = "scan" =>
          IF KnownToken(argv[i]) THEN KnownTokenStep(FALSE)
          ELSE IF starts_with(argv[i], Dash) THEN Unrecognized
          ELSE outcome' # "error" /\ i' = i + 1 /\ provided' = provided]_vars

\* a flag named by the first token has taken the second token as its value
\* and the scan stands at the third
C10_Witness ==
    /\ pc = "scan"
    /\ i = 3
    /\ KnownToken(argv[1])
    /\ Owner(argv[1]).is_flag_
    /\ argv[2] = <<"v">>
    /\ provided[Owner(argv[1]).name_] = <<"v">>

====
